---- MODULE Spec2Model ----
(***************************************************************************)
(* StoryTrackEditor (app/src/components/StoriesTab/StoryTrackEditor.tsx):  *)
(* the multi-track timeline editor of voicebox, as a state machine.        *)
(*                                                                         *)
(* Numbers that the component keeps as JavaScript doubles (pixels, the     *)
(* zoom factor, playhead time) are exact rationals [n, d] in lowest terms  *)
(* with d > 0.  Pointer coordinates are taken relative to the top-left     *)
(* corner of the scrollable timeline container (tracksRef), i.e. the model *)
(* value X stands for e.clientX - tracksRef.getBoundingClientRect().left.  *)
(***************************************************************************)
EXTENDS Integers, Sequences, FiniteSets, TLC

(***************************************************************************)
(* Exact rational arithmetic                                               *)
(***************************************************************************)
Abs(i) == IF i < 0 THEN -i ELSE i

RECURSIVE Gcd(_, _)
Gcd(a, b) == IF b = 0 THEN a ELSE Gcd(b, a % b)

Norm(n, d) ==
    LET g == Gcd(Abs(n), d)
    IN  IF g = 0 THEN [n |-> 0, d |-> 1] ELSE [n |-> n \div g, d |-> d \div g]

R(i) == [n |-> i, d |-> 1]

RatAdd(x, y) ==
    LET g == Gcd(x.d, y.d)
    IN  Norm(x.n * (y.d \div g) + y.n * (x.d \div g), (x.d \div g) * y.d)

RatNeg(x) == [n |-> -x.n, d |-> x.d]

RatSub(x, y) == RatAdd(x, RatNeg(y))

\* cross-cancelling product: stays in lowest terms without a large intermediate
RatMul(x, y) ==
    LET g1 == Gcd(Abs(x.n), y.d)
        g2 == Gcd(Abs(y.n), x.d)
        a  == IF g1 = 0 THEN 0 ELSE x.n \div g1
        b  == IF g2 = 0 THEN 0 ELSE y.n \div g2
    IN  IF x.n = 0 \/ y.n = 0 THEN R(0)
        ELSE [n |-> a * b, d |-> (x.d \div g2) * (y.d \div g1)]

\* y # 0
RatInv(y) == IF y.n < 0 THEN [n |-> -y.d, d |-> -y.n] ELSE [n |-> y.d, d |-> y.n]

RatDiv(x, y) == RatMul(x, RatInv(y))

RatLt(x, y) == x.n * y.d < y.n * x.d

RatLe(x, y) == x.n * y.d <= y.n * x.d

RatMin(x, y) == IF RatLe(x, y) THEN x ELSE y

RatMax(x, y) == IF RatLe(x, y) THEN y ELSE x

\* Math.floor
RatFloor(x) == x.n \div x.d

\* Math.round: nearest integer, ties towards +infinity
RatRound(x) == (x.n \div x.d) + (IF 2 * (x.n % x.d) >= x.d THEN 1 ELSE 0)

IsInt(x) == x.d = 1

Min(a, b) == IF a <= b THEN a ELSE b

Max(a, b) == IF a >= b THEN a ELSE b

(***************************************************************************)
(* Program constants                                                       *)
(***************************************************************************)
TRACK_HEIGHT == 48

TIME_RULER_HEIGHT == 24

MIN_PIXELS_PER_SECOND == 10

MAX_PIXELS_PER_SECOND == 200

DEFAULT_PIXELS_PER_SECOND == 50

DEFAULT_TRACKS == {1, 0, -1}

MIN_EDITOR_HEIGHT == 120

MAX_EDITOR_HEIGHT == 500

\* the multiplicative zoom step 1.5
ZoomFactor == [n |-> 3, d |-> 2]

\* minimum audible remainder of a clip kept by the trim clamp (ms)
MinRemainMs == 100

\* totalDurationMs floor (ms)
MinTotalDurationMs == 10000

\* height of the toolbar above the timeline container (px)
ToolbarHeight == 40

(***************************************************************************)
(* Environment of the component                                            *)
(***************************************************************************)
\* null for ids (clip ids are positive)
Null == 0

\* width of the scrollable container (containerWidth / clientWidth), px
ContainerWidth == 400

\* trackEditorHeight of the store when the editor mounts
InitialEditorHeight == 300

\* the story's clips as first delivered by the query (items prop):
\* duration_ms stands for item.duration * 1000
InitialItems ==
    << [id |-> 1, track |-> 0, start_time_ms |-> 1200, duration_ms |-> R(2000),
        trim_start_ms |-> 0, trim_end_ms |-> 0],
       [id |-> 2, track |-> -2, start_time_ms |-> 0, duration_ms |-> [n |-> 3001, d |-> 2],
        trim_start_ms |-> 100, trim_end_ms |-> 200] >>

(***************************************************************************)
(* Bounds of the model                                                     *)
(***************************************************************************)
\* mutation requests sent in one run
MaxSent == 1

\* download trigger requests sent in one run
MaxTriggers == 3

\* calls of saveFile in one run
MaxSaves == 2

\* error notifications shown in one run
MaxToasts == 1

\* pointer X positions (px from the container's left edge)
PointerXs == {5, 250}

\* a pointer x between the two, for a pointer that moves in steps
MidPointerXs == {55}

\* pointer Y positions (px from the container's top edge)
PointerYs == {30, 130}

\* pointer offsets inside a clip at press (e.clientX - rect.left, e.clientY - rect.top)
OffsetXs == {10}

OffsetYs == {10}

\* viewport Y positions of the pointer on the resize handle
ClientYs == {100, 280}

\* scroll offsets the user scrolls to
ScrollLefts == {0, 100}

\* positions (ms) the playback clock is observed at
PlayTimes == {R(1000), [n |-> 2401, d |-> 2], R(2500), R(3200)}

ScrollTops == {0, 48}

(***************************************************************************)
(* State                                                                   *)
(***************************************************************************)
VARIABLES
    items,              \* items prop: the client-side clip collection
    pixelsPerSecond,    \* useState, rational
    draggingItem,       \* clip id or Null
    dragOffset,         \* [x, y]
    dragPosition,       \* [x, y]; x rational
    isResizing,
    resizeStartY,       \* ref
    resizeStartHeight,  \* ref
    editorHeight,       \* store: trackEditorHeight
    trimmingItem,       \* clip id or Null
    trimSide,           \* "start", "end" or "null"
    trimStartX,
    tempTrimValues,     \* <<>> (null) or <<[trim_start_ms, trim_end_ms]>>
    trimStartItemRef,   \* <<>> (null) or <<[item, initialTrimStart, initialTrimEnd]>>
    selectedClipId,     \* store
    currentTimeMs,      \* store, rational
    scrollLeft,         \* tracksRef.scrollLeft
    scrollTop,          \* tracksRef.scrollTop
    sent,               \* number of mutation requests sent so far
    pending,            \* the requests not yet settled, in the order sent
    toasts,             \* number of error notifications shown
    server,             \* the backend's authoritative clip collection
    stale,              \* TRUE while an invalidated clip query is being refetched
    isPlaying,          \* store: isPlaying
    playbackActive,     \* store: playbackStoryId === storyId
    playbackItems,      \* store: the clips last handed to setActiveStory or play
    playbackTotalMs,    \* store: the total duration last handed to setActiveStory
    keyTarget,          \* e.target of the last keydown: "none", "input" or "other"
    sendCap,            \* number of mutate calls followed in this run
    downloadingModel,   \* ModelManagement: useState, a model name or "null"
    triggerRequests,    \* ModelManagement: model names of the trigger requests in flight
    triggersSent,       \* ModelManagement: number of trigger requests sent so far
    clearTimers,        \* ModelManagement: pending setTimeout(..., 2000) of onSettled
    saveCalls           \* tauriFilesystem: one record per call of saveFile

dragVars == <<draggingItem, dragOffset, dragPosition>>

resizeVars == <<isResizing, resizeStartY, resizeStartHeight>>

trimVars == <<trimmingItem, trimSide, trimStartX, tempTrimValues, trimStartItemRef>>

storeVars == <<selectedClipId, currentTimeMs>>

scrollVars == <<scrollLeft, scrollTop>>

netVars == <<sent, pending, toasts, server, stale>>

playVars == <<playbackActive, playbackItems, playbackTotalMs>>

restVars == <<isPlaying, sendCap, playVars>>

\* everything but the record of the last key event
handlerVars == <<items, pixelsPerSecond, dragVars, resizeVars, editorHeight, trimVars,
                 storeVars, scrollVars, netVars, restVars>>

modelVars == <<downloadingModel, triggerRequests, triggersSent, clearTimers>>

\* the state of the components outside the track editor
outsideVars == <<modelVars, saveCalls>>

vars == <<handlerVars, keyTarget, outsideVars>>

(***************************************************************************)
(* Derived values (recomputed on every render)                             *)
(***************************************************************************)
Range(seq) == {seq[i] : i \in 1..Len(seq)}

Ids(coll) == {coll[i].id : i \in 1..Len(coll)}

\* items.find((i) => i.id === id); only used when id \in Ids(coll)
Find(coll, id) == coll[CHOOSE i \in 1..Len(coll) : coll[i].id = id]

SetMax(S) == CHOOSE m \in S : \A k \in S : k <= m

RECURSIVE SortDesc(_)
SortDesc(S) == IF S = {} THEN <<>> ELSE <<SetMax(S)>> \o SortDesc(S \ {SetMax(S)})

\* fault model: only the lanes that hold a clip
tracksOfClips(coll) == SortDesc({coll[i].track : i \in 1..Len(coll)})

\* unique tracks of the clips plus the default lanes, higher tracks on top
tracks(coll) == SortDesc(DEFAULT_TRACKS \cup {coll[i].track : i \in 1..Len(coll)})

\* tracks.indexOf(trackNumber): 0-based, -1 when absent
getTrackIndex(coll, trackNumber) ==
    LET t == tracks(coll)
    IN  IF \E i \in 1..Len(t) : t[i] = trackNumber
        THEN (CHOOSE i \in 1..Len(t) : t[i] = trackNumber) - 1
        ELSE -1

getEffectiveDuration(item) ==
    RatSub(RatSub(item.duration_ms, R(item.trim_start_ms)), R(item.trim_end_ms))

RECURSIVE RatMaxOver(_, _)
RatMaxOver(seq, floor) ==
    IF seq = <<>> THEN floor ELSE RatMax(Head(seq), RatMaxOver(Tail(seq), floor))

totalDurationMs(coll) ==
    IF Len(coll) = 0 THEN R(MinTotalDurationMs)
    ELSE RatMaxOver([i \in 1..Len(coll) |->
                        RatAdd(R(coll[i].start_time_ms), getEffectiveDuration(coll[i]))],
                    R(MinTotalDurationMs))

\* end of the last clip: the total duration handed to setActiveStory
playbackDurationMs(coll) ==
    RatMaxOver([i \in 1..Len(coll) |->
                   RatAdd(R(coll[i].start_time_ms), getEffectiveDuration(coll[i]))],
               R(0))

\* fault model: the clips handed to play in the order of the collection
sortedItemsUnsorted(coll) == coll

RECURSIVE InsertByStart(_, _)
\* item put behind the clips of seq that start no later than it
InsertByStart(seq, item) ==
    IF seq = <<>> THEN <<item>>
    ELSE IF Head(seq).start_time_ms <= item.start_time_ms
         THEN <<Head(seq)>> \o InsertByStart(Tail(seq), item)
         ELSE <<item>> \o seq

RECURSIVE SortByStart(_, _)
SortByStart(done, rest) ==
    IF rest = <<>> THEN done ELSE SortByStart(InsertByStart(done, Head(rest)), Tail(rest))

\* [...items].sort((a, b) => a.start_time_ms - b.start_time_ms), a stable sort
sortedItems(coll) == SortByStart(<<>>, coll)

msToPixelsAt(pps, ms) == RatMul(RatDiv(ms, R(1000)), pps)

\* fault model: a conversion that rounds to whole milliseconds
pixelsToMsRoundedAt(pps, px) == R(RatRound(RatMul(RatDiv(px, pps), R(1000))))

pixelsToMsAt(pps, px) == RatMul(RatDiv(px, pps), R(1000))

msToPixels(ms) == msToPixelsAt(pixelsPerSecond, ms)

pixelsToMs(px) == pixelsToMsAt(pixelsPerSecond, px)

\* the component renders nothing while the story has no clips
Rendered(coll) == Len(coll) > 0

(***************************************************************************)
(* Layout of the scrollable container, as the markup lays it out:          *)
(* a sticky ruler of TIME_RULER_HEIGHT, then the tracks area in which each *)
(* clip is absolutely positioned at (left, top) of getClipStyle.           *)
(***************************************************************************)
timelineContainerHeight(h) == h - ToolbarHeight

tracksAreaHeight(coll) == Len(tracks(coll)) * TRACK_HEIGHT

contentWidth(coll, pps) == RatAdd(msToPixelsAt(pps, totalDurationMs(coll)), R(200))

timelineWidth(coll, pps) == RatMax(contentWidth(coll, pps), R(ContainerWidth))

MaxScrollLeft(coll, pps) == RatFloor(RatSub(timelineWidth(coll, pps), R(ContainerWidth)))

MaxScrollTop(coll, h) ==
    Max(0, TIME_RULER_HEIGHT + tracksAreaHeight(coll) - timelineContainerHeight(h))

\* the browser keeps scroll offsets inside the scrollable extent after a relayout
ClampScrollLeft(sl, coll, pps) == Min(sl, MaxScrollLeft(coll, pps))

ClampScrollTop(st, coll, h) == Min(st, MaxScrollTop(coll, h))

\* left and top of getClipStyle (px, relative to the tracks area)
ClipStyleLeft(item) ==
    IF draggingItem = item.id THEN dragPosition.x ELSE msToPixels(R(item.start_time_ms))

ClipStyleTop(item) ==
    IF draggingItem = item.id THEN dragPosition.y
    ELSE getTrackIndex(items, item.track) * TRACK_HEIGHT

\* fault model: a render that ignores the values of the gesture
displayTrimStartCommitted(item) == item.trim_start_ms

\* the trims the render uses for a clip: those of the gesture for the clip
\* being trimmed once a move has set them, the clip's own otherwise
displayTrimStart(item) ==
    IF trimmingItem = item.id /\ tempTrimValues # <<>>
    THEN tempTrimValues[1].trim_start_ms
    ELSE item.trim_start_ms

displayTrimEnd(item) ==
    IF trimmingItem = item.id /\ tempTrimValues # <<>>
    THEN tempTrimValues[1].trim_end_ms
    ELSE item.trim_end_ms

\* what the render derives from the trims of a clip: the effective duration,
\* the width of getClipStyle, and the width and trims handed to ClipWaveform
ClipLayout(item) ==
    LET shown == [item EXCEPT !.trim_start_ms = displayTrimStart(item),
                              !.trim_end_ms = displayTrimEnd(item)]
        effectiveDuration == RatSub(RatSub(item.duration_ms, R(displayTrimStart(item))),
                                    R(displayTrimEnd(item)))
    IN  [effectiveDuration |-> effectiveDuration,
         styleWidth        |-> msToPixels(getEffectiveDuration(shown)),
         clipWidth         |-> msToPixels(effectiveDuration),
         trimStartMs       |-> displayTrimStart(item),
         trimEndMs         |-> displayTrimEnd(item)]

\* the clip's getBoundingClientRect() relative to the container's rect
ClipRectLeft(item) == RatSub(ClipStyleLeft(item), R(scrollLeft))

ClipRectTop(item) == TIME_RULER_HEIGHT + ClipStyleTop(item) - scrollTop

\* a pointer event reaches the container (and what it holds) only inside its box
InContainer(X, Y) ==
    /\ RatLe(R(0), X) /\ RatLt(X, R(ContainerWidth))
    /\ 0 <= Y /\ Y < timelineContainerHeight(editorHeight)

(***************************************************************************)
(* Initial state: the editor as mounted with the story's clips             *)
(***************************************************************************)
NoCall == [pc |-> "idle", answer |-> "cancel", fault |-> "none",
           written |-> 0, downloads |-> 0, outcome |-> "pending"]

\* no download triggered, saveFile not called yet
InitOutside ==
    /\ downloadingModel = "null"
    /\ triggerRequests = <<>>
    /\ triggersSent = 0
    /\ clearTimers = 0
    /\ saveCalls = [c \in 1..MaxSaves |-> NoCall]

InitEditor(pps, h, sl, cap) ==
    /\ items = InitialItems
    /\ server = InitialItems
    /\ pixelsPerSecond = pps
    /\ draggingItem = Null
    /\ dragOffset = [x |-> 0, y |-> 0]
    /\ dragPosition = [x |-> R(0), y |-> 0]
    /\ isResizing = FALSE
    /\ resizeStartY = 0
    /\ resizeStartHeight = 0
    /\ editorHeight = h
    /\ trimmingItem = Null
    /\ trimSide = "null"
    /\ trimStartX = 0
    /\ tempTrimValues = <<>>
    /\ trimStartItemRef = <<>>
    /\ selectedClipId = Null
    /\ currentTimeMs = R(0)
    /\ sl <= MaxScrollLeft(InitialItems, pps)
    /\ scrollLeft = sl
    /\ scrollTop = 0
    /\ sent = 0
    /\ pending = <<>>
    /\ toasts = 0
    /\ stale = FALSE
    /\ keyTarget = "none"
    /\ sendCap = cap
    /\ InitOutside

\* the editor after its mount effect made the story the active one
InitCapped(pps, h, sl, cap) ==
    /\ InitEditor(pps, h, sl, cap)
    /\ isPlaying = FALSE
    /\ playbackActive = TRUE
    /\ playbackItems = InitialItems
    /\ playbackTotalMs = playbackDurationMs(InitialItems)

\* the editor as mounted while the playback store holds another story, which
\* may be playing
InitUnactivated ==
    /\ InitEditor(R(DEFAULT_PIXELS_PER_SECOND), InitialEditorHeight, 0, MaxSent)
    /\ isPlaying \in BOOLEAN
    /\ playbackActive = FALSE
    /\ playbackItems = <<>>
    /\ playbackTotalMs = R(0)

InitWith(pps, h, sl) == InitCapped(pps, h, sl, MaxSent)

InitAt(pps, h) == InitWith(pps, h, 0)

Init == InitAt(R(DEFAULT_PIXELS_PER_SECOND), InitialEditorHeight)

\* zoom levels the zoom buttons reach from the default (ZoomLevelsReached)
ZoomLevels == {R(MIN_PIXELS_PER_SECOND), [n |-> 100, d |-> 3],
               R(DEFAULT_PIXELS_PER_SECOND), R(MAX_PIXELS_PER_SECOND)}

\* editor heights a resize gesture leaves in the store
EditorHeights == {MIN_EDITOR_HEIGHT, InitialEditorHeight}

\* the mounted editor after some zooming
InitZoomed == \E z \in ZoomLevels : InitAt(z, InitialEditorHeight)

\* the mounted editor after some zooming and horizontal scrolling
InitScrolled ==
    \E z \in ZoomLevels, sl \in ScrollLefts : InitWith(z, InitialEditorHeight, sl)

\* the mounted editor, followed for one more mutate call
InitOverlap ==
    InitCapped(R(DEFAULT_PIXELS_PER_SECOND), InitialEditorHeight, 0, MaxSent + 1)

\* the mounted editor after some zooming and resizing
InitPress == \E z \in ZoomLevels, h \in EditorHeights : InitAt(z, h)

(***************************************************************************)
(* Mutation dispatch (moveItem / trimItem / splitItem / duplicateItem /    *)
(* removeItem .mutate): the request is sent and the handler goes on.       *)
(***************************************************************************)
CanSend == sent < sendCap

\* seq numbers the requests in the order they are sent
Dispatch(req) ==
    /\ CanSend
    /\ sent' = sent + 1
    /\ pending' = Append(pending, [seq |-> sent + 1, req |-> req])

NoDispatch == UNCHANGED <<sent, pending>>

\* toast({... variant: 'destructive'})
Toast ==
    /\ toasts < MaxToasts
    /\ toasts' = toasts + 1

(***************************************************************************)
(* Playback and auto-scroll                                                *)
(***************************************************************************)
\* fault model: auto-scroll that puts the playhead at the left edge
AutoScrollToEdge(playing, sl, playheadLeft, maxScroll) ==
    IF playing /\ RatLt(RatAdd(R(sl), [n |-> ContainerWidth, d |-> 2]), playheadLeft)
    THEN Min(RatFloor(playheadLeft), maxScroll)
    ELSE sl

\* fault model: auto-scroll that centres the playhead whenever it is off centre
AutoScrollAlways(playing, sl, playheadLeft, maxScroll) ==
    IF playing
    THEN Max(0, Min(RatFloor(RatSub(playheadLeft, [n |-> ContainerWidth, d |-> 2])),
                    maxScroll))
    ELSE sl

\* the auto-scroll effect, run after a render in which isCurrentlyPlaying or
\* playheadLeft changed: the scrollLeft it leaves. The container keeps whole
\* pixels inside its scrollable extent.
AutoScroll(playing, sl, playheadLeft, maxScroll) ==
    IF playing /\ RatLt(RatAdd(R(sl), [n |-> ContainerWidth, d |-> 2]), playheadLeft)
    THEN Min(RatFloor(RatSub(playheadLeft, [n |-> ContainerWidth, d |-> 2])), maxScroll)
    ELSE sl

isCurrentlyPlaying == isPlaying /\ playbackActive

\* toolbar button and Space: pause() when this story is playing, else
\* play(storyId, sortedItems), which makes this story the one that plays
handlePlayPause ==
    /\ Rendered(items)
    /\ IF isCurrentlyPlaying
       THEN /\ isPlaying' = FALSE
            /\ UNCHANGED playVars
       ELSE /\ isPlaying' = TRUE
            /\ playbackActive' = TRUE
            /\ playbackItems' = sortedItems(items)
            /\ UNCHANGED playbackTotalMs
    /\ scrollLeft' = AutoScroll(isPlaying' /\ playbackActive', scrollLeft,
                                msToPixels(currentTimeMs),
                                MaxScrollLeft(items, pixelsPerSecond))
    /\ UNCHANGED <<items, pixelsPerSecond, dragVars, resizeVars, editorHeight, trimVars,
                   storeVars, scrollTop, netVars, sendCap>>

\* the effect that runs while the story is shown and not the active one:
\* setActiveStory(storyId, items, totalDuration)
ActivateStory ==
    /\ Rendered(items)
    /\ ~playbackActive
    /\ playbackActive' = TRUE
    /\ playbackItems' = items
    /\ playbackTotalMs' = playbackDurationMs(items)
    /\ scrollLeft' = AutoScroll(isPlaying, scrollLeft, msToPixels(currentTimeMs),
                                MaxScrollLeft(items, pixelsPerSecond))
    /\ UNCHANGED <<items, pixelsPerSecond, dragVars, resizeVars, editorHeight, trimVars,
                   storeVars, scrollTop, netVars, isPlaying, sendCap>>

\* toolbar button: stop() resets the position to zero
handleStop ==
    /\ Rendered(items)
    /\ isPlaying' = FALSE
    /\ currentTimeMs' = R(0)
    /\ UNCHANGED <<items, pixelsPerSecond, dragVars, resizeVars, editorHeight, trimVars,
                   selectedClipId, scrollVars, netVars, sendCap, playVars>>

\* the store advances currentTimeMs while playing
PlaybackTick(t) ==
    /\ Rendered(items)
    /\ isPlaying
    /\ RatLt(currentTimeMs, t)
    /\ RatLe(t, playbackDurationMs(items))
    /\ currentTimeMs' = t
    /\ scrollLeft' = AutoScroll(playbackActive, scrollLeft, msToPixels(t),
                                MaxScrollLeft(items, pixelsPerSecond))
    /\ UNCHANGED <<items, pixelsPerSecond, dragVars, resizeVars, editorHeight, trimVars,
                   selectedClipId, scrollTop, netVars, restVars>>

(***************************************************************************)
(* Zoom                                                                    *)
(***************************************************************************)
\* fault model: zoom-in by a factor of 2
ZoomInDoubling(prev) == RatMin(RatMul(prev, R(2)), R(MAX_PIXELS_PER_SECOND))

ZoomInValue(prev) == RatMin(RatMul(prev, ZoomFactor), R(MAX_PIXELS_PER_SECOND))

ZoomOutValue(prev) == RatMax(RatDiv(prev, ZoomFactor), R(MIN_PIXELS_PER_SECOND))

handleZoomIn ==
    /\ Rendered(items)
    /\ pixelsPerSecond' = ZoomInValue(pixelsPerSecond)
    /\ scrollLeft' = AutoScroll(isCurrentlyPlaying,
                                ClampScrollLeft(scrollLeft, items, pixelsPerSecond'),
                                msToPixelsAt(pixelsPerSecond', currentTimeMs),
                                MaxScrollLeft(items, pixelsPerSecond'))
    /\ UNCHANGED <<items, dragVars, resizeVars, editorHeight, trimVars, storeVars,
                   scrollTop, netVars,
                   restVars>>

handleZoomOut ==
    /\ Rendered(items)
    /\ pixelsPerSecond' = ZoomOutValue(pixelsPerSecond)
    /\ scrollLeft' = AutoScroll(isCurrentlyPlaying,
                                ClampScrollLeft(scrollLeft, items, pixelsPerSecond'),
                                msToPixelsAt(pixelsPerSecond', currentTimeMs),
                                MaxScrollLeft(items, pixelsPerSecond'))
    /\ UNCHANGED <<items, dragVars, resizeVars, editorHeight, trimVars, storeVars,
                   scrollTop, netVars,
                   restVars>>

(***************************************************************************)
(* Selection and seeking                                                   *)
(***************************************************************************)
\* fault model: a seek that ignores the gesture in progress
handleTimelineClickAlways(X) ==
    /\ Rendered(items)
    /\ currentTimeMs' = RatMax(R(0), pixelsToMs(R(X + scrollLeft)))
    /\ selectedClipId' = Null
    /\ UNCHANGED <<items, pixelsPerSecond, dragVars, resizeVars, editorHeight, trimVars,
                   scrollVars, netVars, restVars>>

\* handleTimelineClick: X is e.clientX - rect.left
SeekTime(X) == RatMax(R(0), pixelsToMs(R(X + scrollLeft)))

handleTimelineClick(X) ==
    /\ Rendered(items)
    /\ IF draggingItem # Null \/ trimmingItem # Null
       THEN UNCHANGED <<storeVars, scrollLeft>>
       ELSE /\ currentTimeMs' = SeekTime(X)
            /\ selectedClipId' = Null
            /\ scrollLeft' = AutoScroll(isCurrentlyPlaying, scrollLeft,
                                        msToPixels(SeekTime(X)),
                                        MaxScrollLeft(items, pixelsPerSecond))
    /\ UNCHANGED <<items, pixelsPerSecond, dragVars, resizeVars, editorHeight, trimVars,
                   scrollTop, netVars,
                   restVars>>

handleClipClick(item) ==
    /\ Rendered(items)
    /\ item \in Range(items)
    /\ IF draggingItem # Null \/ trimmingItem # Null
       THEN UNCHANGED selectedClipId
       ELSE selectedClipId' = item.id
    /\ UNCHANGED <<items, pixelsPerSecond, dragVars, resizeVars, editorHeight, trimVars,
                   currentTimeMs, scrollVars, netVars,
                   restVars>>

(***************************************************************************)
(* Trim gesture                                                            *)
(***************************************************************************)
\* the trim handles are rendered only on the selected clip
handleTrimStart(item, side, X) ==
    /\ Rendered(items)
    /\ item \in Range(items)
    /\ selectedClipId = item.id
    /\ trimmingItem' = item.id
    /\ trimSide' = side
    /\ selectedClipId' = item.id
    /\ trimStartX' = X
    /\ trimStartItemRef' = << [item |-> item,
                               initialTrimStart |-> item.trim_start_ms,
                               initialTrimEnd |-> item.trim_end_ms] >>
    /\ UNCHANGED <<items, pixelsPerSecond, dragVars, resizeVars, editorHeight,
                   tempTrimValues, currentTimeMs, scrollVars, netVars,
                   restVars>>

\* fault model: the validation after the clamp dropped
TrimNeverTooShort(nts, nte, originalDurationMs) == FALSE

\* fault model: only the start trim compared on release
TrimStartChanged(fts, fte, its, ite) == fts # its

\* Math.round(Math.max(0, Math.min(initial + deltaMs, originalDurationMs - other - 100)))
TrimClamp(moved, originalDurationMs, other) ==
    RatRound(RatMax(R(0),
                    RatMin(moved, RatSub(RatSub(originalDurationMs, R(other)),
                                         R(MinRemainMs)))))

newTrimStart(side, initialTrimStart, initialTrimEnd, deltaMs, originalDurationMs) ==
    IF side = "start"
    THEN TrimClamp(RatAdd(R(initialTrimStart), deltaMs), originalDurationMs, initialTrimEnd)
    ELSE initialTrimStart

newTrimEnd(side, initialTrimStart, initialTrimEnd, deltaMs, originalDurationMs) ==
    IF side = "start"
    THEN initialTrimEnd
    ELSE TrimClamp(RatSub(R(initialTrimEnd), deltaMs), originalDurationMs, initialTrimStart)

\* newTrimStart + newTrimEnd >= originalDurationMs - 100
TrimTooShort(nts, nte, originalDurationMs) ==
    RatLe(RatSub(originalDurationMs, R(MinRemainMs)), R(nts + nte))

\* tempTrimValues after a move to X that finds the value prev: a move that
\* fails the validation returns before setTempTrimValues
TempAfterMove(X, prev) ==
    IF trimSide = "null" \/ trimStartItemRef = <<>>
    THEN prev
    ELSE LET deltaX  == X - trimStartX
             deltaMs == pixelsToMs(R(deltaX))
             ref     == trimStartItemRef[1]
             dur     == ref.item.duration_ms
             nts     == newTrimStart(trimSide, ref.initialTrimStart,
                                     ref.initialTrimEnd, deltaMs, dur)
             nte     == newTrimEnd(trimSide, ref.initialTrimStart,
                                   ref.initialTrimEnd, deltaMs, dur)
         IN  IF TrimTooShort(nts, nte, dur)
             THEN prev
             ELSE << [trim_start_ms |-> nts, trim_end_ms |-> nte] >>

\* window mousemove listener, registered while trimmingItem is set
handleTrimMove(X) ==
    /\ trimmingItem # Null
    /\ tempTrimValues' = TempAfterMove(X, tempTrimValues)
    /\ UNCHANGED <<items, pixelsPerSecond, dragVars, resizeVars, editorHeight,
                   trimmingItem, trimSide, trimStartX, trimStartItemRef, storeVars,
                   scrollVars, netVars,
                   restVars>>

\* tempTrimValues?.trim_start_ms ?? initialTrimStart (values are integers already)
finalTrimStart == IF tempTrimValues = <<>> THEN trimStartItemRef[1].initialTrimStart
                  ELSE tempTrimValues[1].trim_start_ms

finalTrimEnd == IF tempTrimValues = <<>> THEN trimStartItemRef[1].initialTrimEnd
                ELSE tempTrimValues[1].trim_end_ms

TrimChanged(fts, fte, its, ite) == fts # its \/ fte # ite

TrimRequest(itemId, fts, fte) ==
    [kind |-> "trim", itemId |-> itemId, trim_start_ms |-> fts, trim_end_ms |-> fte]

\* fault model: the release writes the final trims into the local clip
handleTrimEndOptimistic ==
    /\ trimmingItem # Null
    /\ trimStartItemRef # <<>>
    /\ NoDispatch
    /\ items' = [i \in 1..Len(items) |->
                    IF items[i].id = trimmingItem
                    THEN [items[i] EXCEPT !.trim_start_ms = finalTrimStart,
                                          !.trim_end_ms = finalTrimEnd]
                    ELSE items[i]]
    /\ trimmingItem' = Null
    /\ trimSide' = "null"
    /\ tempTrimValues' = <<>>
    /\ trimStartItemRef' = <<>>
    /\ UNCHANGED <<pixelsPerSecond, dragVars, resizeVars, editorHeight,
                   trimStartX, storeVars, scrollVars, toasts, server, stale,
                   restVars>>

\* fault model: a release that leaves the provisional trims behind
handleTrimEndKeepingValues ==
    /\ trimmingItem # Null
    /\ IF trimSide = "null" \/ trimStartItemRef = <<>>
       THEN NoDispatch
       ELSE IF TrimChanged(finalTrimStart, finalTrimEnd,
                           trimStartItemRef[1].initialTrimStart,
                           trimStartItemRef[1].initialTrimEnd)
            THEN Dispatch(TrimRequest(trimmingItem, finalTrimStart, finalTrimEnd))
            ELSE NoDispatch
    /\ trimmingItem' = Null
    /\ trimSide' = "null"
    /\ trimStartItemRef' = <<>>
    /\ UNCHANGED <<items, pixelsPerSecond, dragVars, resizeVars, editorHeight,
                   trimStartX, tempTrimValues, storeVars, scrollVars, toasts, server,
                   stale, restVars>>

\* window mouseup listener, registered while trimmingItem is set
handleTrimEnd ==
    /\ trimmingItem # Null
    /\ IF trimSide = "null" \/ trimStartItemRef = <<>>
       THEN NoDispatch
       ELSE IF TrimChanged(finalTrimStart, finalTrimEnd,
                           trimStartItemRef[1].initialTrimStart,
                           trimStartItemRef[1].initialTrimEnd)
            THEN Dispatch(TrimRequest(trimmingItem, finalTrimStart, finalTrimEnd))
            ELSE NoDispatch
    /\ trimmingItem' = Null
    /\ trimSide' = "null"
    /\ tempTrimValues' = <<>>
    /\ trimStartItemRef' = <<>>
    /\ UNCHANGED <<items, pixelsPerSecond, dragVars, resizeVars, editorHeight,
                   trimStartX, storeVars, scrollVars, toasts, server, stale,
                   restVars>>

(***************************************************************************)
(* Drag gesture                                                            *)
(***************************************************************************)
\* dragPosition captured at press:
\* x: rect.left - tracksRect.left + scrollLeft, y: rect.top - tracksRect.top - ruler
\* fault model: only the time compared on release
TimeChanged(item, timeMs, track) == timeMs # item.start_time_ms

DragStartPosition(item) ==
    [x |-> RatAdd(ClipRectLeft(item), R(scrollLeft)),
     y |-> ClipRectTop(item) - TIME_RULER_HEIGHT]

\* a mousedown reaches the clip's onMouseDown: the clip is rendered and the
\* pressed point of it lies inside the visible part of the container
CanDragStart(item, ox, oy) ==
    /\ Rendered(items)
    /\ item \in Range(items)
    /\ InContainer(RatAdd(ClipRectLeft(item), R(ox)), ClipRectTop(item) + oy)

\* mousedown on a clip body; (ox, oy) is the pointer's offset inside the clip's rect
handleDragStart(item, ox, oy) ==
    /\ CanDragStart(item, ox, oy)
    /\ dragOffset' = [x |-> ox, y |-> oy]
    /\ dragPosition' = DragStartPosition(item)
    /\ draggingItem' = item.id
    /\ UNCHANGED <<items, pixelsPerSecond, resizeVars, editorHeight, trimVars, storeVars,
                   scrollVars, netVars,
                   restVars>>

DragMovePosition(X, Y) ==
    [x |-> RatMax(R(0), R(X + scrollLeft - dragOffset.x)),
     y |-> Y - dragOffset.y - TIME_RULER_HEIGHT]

\* onMouseMove of the container, attached while draggingItem is set
handleDragMove(X, Y) ==
    /\ Rendered(items)
    /\ draggingItem # Null
    /\ InContainer(R(X), Y)
    /\ dragPosition' = DragMovePosition(X, Y)
    /\ UNCHANGED <<items, pixelsPerSecond, draggingItem, dragOffset, resizeVars,
                   editorHeight, trimVars, storeVars, scrollVars, netVars,
                   restVars>>

\* Math.max(0, Math.round(pixelsToMs(dragPosition.x)))
newTimeMs == Max(0, RatRound(pixelsToMs(dragPosition.x)))

\* fault model: the track number of the row under the pointer, rows counted on
\* beyond both ends of the track list
newTrackByRow ==
    tracks(items)[1] - (dragPosition.y \div TRACK_HEIGHT)

\* tracks[clamp(floor(dragPosition.y / TRACK_HEIGHT), 0, tracks.length - 1)] ?? 0
newTrack ==
    LET trackIndex        == dragPosition.y \div TRACK_HEIGHT
        clampedTrackIndex == Max(0, Min(trackIndex, Len(tracks(items)) - 1))
    IN  tracks(items)[clampedTrackIndex + 1]

PositionChanged(item, timeMs, track) ==
    timeMs # item.start_time_ms \/ track # item.track

MoveRequest(itemId, timeMs, track) ==
    [kind |-> "move", itemId |-> itemId, start_time_ms |-> timeMs, track |-> track]

\* fault model: the drag stays active until its move mutation settles
handleDragEndAwaiting ==
    /\ Rendered(items)
    /\ draggingItem # Null
    /\ IF draggingItem \notin Ids(items)
       THEN NoDispatch /\ draggingItem' = Null
       ELSE LET item == Find(items, draggingItem)
            IN  IF PositionChanged(item, newTimeMs, newTrack)
                THEN /\ Dispatch(MoveRequest(item.id, newTimeMs, newTrack))
                     /\ UNCHANGED draggingItem
                ELSE NoDispatch /\ draggingItem' = Null
    /\ UNCHANGED <<items, pixelsPerSecond, dragOffset, dragPosition, resizeVars,
                   editorHeight, trimVars, storeVars, scrollVars, toasts, server, stale,
                   restVars>>

\* onMouseUp and onMouseLeave of the container, attached while draggingItem is set
handleDragEnd ==
    /\ Rendered(items)
    /\ draggingItem # Null
    /\ IF draggingItem \notin Ids(items)
       THEN NoDispatch
       ELSE LET item == Find(items, draggingItem)
            IN  IF PositionChanged(item, newTimeMs, newTrack)
                THEN Dispatch(MoveRequest(item.id, newTimeMs, newTrack))
                ELSE NoDispatch
    /\ draggingItem' = Null
    /\ UNCHANGED <<items, pixelsPerSecond, dragOffset, dragPosition, resizeVars,
                   editorHeight, trimVars, storeVars, scrollVars, toasts, server, stale,
                   restVars>>

(***************************************************************************)
(* Panel resize gesture                                                    *)
(***************************************************************************)
\* mousedown on the resize handle; clientY is a viewport coordinate
handleResizeStart(clientY) ==
    /\ Rendered(items)
    /\ isResizing' = TRUE
    /\ resizeStartY' = clientY
    /\ resizeStartHeight' = editorHeight
    /\ UNCHANGED <<items, pixelsPerSecond, dragVars, editorHeight, trimVars, storeVars,
                   scrollVars, netVars,
                   restVars>>

\* fault model: a panel that grows without the upper limit
newHeightNoMaximum(clientY) ==
    Max(MIN_EDITOR_HEIGHT, resizeStartHeight + (resizeStartY - clientY))

newHeight(clientY) ==
    Min(MAX_EDITOR_HEIGHT,
        Max(MIN_EDITOR_HEIGHT, resizeStartHeight + (resizeStartY - clientY)))

\* window mousemove listener, registered while isResizing
handleResizeMove(clientY) ==
    /\ isResizing
    /\ editorHeight' = newHeight(clientY)
    /\ scrollTop' = ClampScrollTop(scrollTop, items, editorHeight')
    /\ UNCHANGED <<items, pixelsPerSecond, dragVars, resizeVars, trimVars, storeVars,
                   scrollLeft, netVars,
                   restVars>>

\* window mouseup listener, registered while isResizing
handleResizeEnd ==
    /\ isResizing
    /\ isResizing' = FALSE
    /\ UNCHANGED <<items, pixelsPerSecond, dragVars, resizeStartY, resizeStartHeight,
                   editorHeight, trimVars, storeVars, scrollVars, netVars,
                   restVars>>

\* the user scrolls the timeline container
Scroll(sl, st) ==
    /\ Rendered(items)
    /\ sl <= MaxScrollLeft(items, pixelsPerSecond)
    /\ st <= MaxScrollTop(items, editorHeight)
    /\ <<sl, st>> # <<scrollLeft, scrollTop>>
    /\ scrollLeft' = sl
    /\ scrollTop' = st
    /\ UNCHANGED <<items, pixelsPerSecond, dragVars, resizeVars, editorHeight, trimVars,
                   storeVars, netVars,
                   restVars>>

(***************************************************************************)
(* Split / duplicate / delete of the selected clip                         *)
(***************************************************************************)
\* fault model: a split at the clip's first instant let through
SplitInvalidExceptAtStart(splitTimeMs, effectiveDuration) ==
    RatLt(splitTimeMs, R(0)) \/ RatLe(effectiveDuration, splitTimeMs)

\* splitTimeMs <= 0 || splitTimeMs >= effectiveDuration
SplitInvalid(splitTimeMs, effectiveDuration) ==
    RatLe(splitTimeMs, R(0)) \/ RatLe(effectiveDuration, splitTimeMs)

SplitRequest(itemId, splitTimeMs) ==
    [kind |-> "split", itemId |-> itemId, split_time_ms |-> splitTimeMs]

handleSplit ==
    /\ selectedClipId # Null
    /\ selectedClipId \in Ids(items)
    /\ LET item        == Find(items, selectedClipId)
           splitTimeMs == RatSub(currentTimeMs, R(item.start_time_ms))
       IN  IF SplitInvalid(splitTimeMs, getEffectiveDuration(item))
           THEN Toast /\ NoDispatch
           ELSE Dispatch(SplitRequest(selectedClipId, splitTimeMs)) /\ UNCHANGED toasts
    /\ UNCHANGED <<items, pixelsPerSecond, dragVars, resizeVars, editorHeight, trimVars,
                   storeVars, scrollVars, server, stale,
                   restVars>>

DuplicateRequest(itemId) == [kind |-> "duplicate", itemId |-> itemId]

handleDuplicate ==
    /\ selectedClipId # Null
    /\ Dispatch(DuplicateRequest(selectedClipId))
    /\ UNCHANGED <<items, pixelsPerSecond, dragVars, resizeVars, editorHeight, trimVars,
                   storeVars, scrollVars, toasts, server, stale,
                   restVars>>

RemoveRequest(itemId) == [kind |-> "remove", itemId |-> itemId]

handleDelete ==
    /\ selectedClipId # Null
    /\ Dispatch(RemoveRequest(selectedClipId))
    /\ UNCHANGED <<items, pixelsPerSecond, dragVars, resizeVars, editorHeight, trimVars,
                   storeVars, scrollVars, toasts, server, stale,
                   restVars>>

(***************************************************************************)
(* Keyboard shortcuts                                                      *)
(***************************************************************************)
Keys == {" ", "Escape", "s", "d", "Delete", "Backspace"}

\* the branches of handleKeyDown after the test of the target ("s" and "d"
\* stand for either case of the letter); mod is
\* e.metaKey || e.ctrlKey
KeyEffect(key, mod) ==
    CASE key = " " -> handlePlayPause
      [] key = "Escape" ->
            /\ selectedClipId' = Null
            /\ UNCHANGED <<items, pixelsPerSecond, dragVars, resizeVars, editorHeight,
                           trimVars, currentTimeMs, scrollVars, netVars, restVars>>
      [] key = "s" ->
            IF selectedClipId # Null /\ selectedClipId \in Ids(items)
            THEN handleSplit ELSE UNCHANGED handlerVars
      [] key = "d" ->
            IF selectedClipId # Null /\ mod
            THEN handleDuplicate ELSE UNCHANGED handlerVars
      [] OTHER ->
            IF selectedClipId # Null
            THEN handleDelete ELSE UNCHANGED handlerVars

\* fault model: shortcuts that act whatever the target of the key event
handleKeyDownAnyTarget(key, mod, target) ==
    /\ keyTarget' = target
    /\ KeyEffect(key, mod)

\* window keydown listener; target tells whether e.target is an input or a
\* textarea
handleKeyDown(key, mod, target) ==
    /\ keyTarget' = target
    /\ IF target = "input"
       THEN UNCHANGED handlerVars
       ELSE KeyEffect(key, mod)

(***************************************************************************)
(* The backend and the mutation hooks (useStories): a request settles      *)
(* either way at any later time, in any order; a success invalidates the   *)
(* clip query, whose refetch replaces the items prop.                      *)
(***************************************************************************)
\* data-model invariant of a clip: both trims non-negative and more than
\* MinRemainMs of audio left
ValidTrims(ts, te, duration_ms) ==
    /\ ts >= 0
    /\ te >= 0
    /\ RatLt(R(ts + te), RatSub(duration_ms, R(MinRemainMs)))

\* id given to the clip request number seq creates: never one that was used before
NewId(seq) == Len(InitialItems) + seq

\* seq without its i-th element
RemoveAt(seq, i) == SubSeq(seq, 1, i - 1) \o SubSeq(seq, i + 1, Len(seq))

RECURSIVE Replace(_, _, _)
\* coll with the clip of this id replaced by the clips of seq
Replace(coll, id, seq) ==
    IF coll = <<>> THEN <<>>
    ELSE (IF Head(coll).id = id THEN seq ELSE <<Head(coll)>>) \o Replace(Tail(coll), id, seq)

SplitAt(clip, req) == RatRound(req.split_time_ms)

ServerAccepts(coll, req) ==
    /\ req.itemId \in Ids(coll)
    /\ LET clip == Find(coll, req.itemId)
       IN  CASE req.kind = "move" -> req.start_time_ms >= 0
             [] req.kind = "trim" ->
                    ValidTrims(req.trim_start_ms, req.trim_end_ms, clip.duration_ms)
             [] req.kind = "split" ->
                    LET t == SplitAt(clip, req)
                    IN  /\ ValidTrims(clip.trim_start_ms + t, clip.trim_end_ms,
                                      clip.duration_ms)
                        /\ RatLt(R(MinRemainMs), R(t))
             [] OTHER -> TRUE

ServerApply(coll, req, seq) ==
    LET clip == Find(coll, req.itemId)
    IN  CASE req.kind = "move" ->
                Replace(coll, clip.id,
                        << [clip EXCEPT !.start_time_ms = req.start_time_ms,
                                        !.track = req.track] >>)
          [] req.kind = "trim" ->
                Replace(coll, clip.id,
                        << [clip EXCEPT !.trim_start_ms = req.trim_start_ms,
                                        !.trim_end_ms = req.trim_end_ms] >>)
          [] req.kind = "split" ->
                LET t    == SplitAt(clip, req)
                    rest == RatRound(RatSub(getEffectiveDuration(clip), R(t)))
                IN  Replace(coll, clip.id,
                            << [clip EXCEPT !.trim_end_ms = clip.trim_end_ms + rest],
                               [clip EXCEPT !.id = NewId(seq),
                                            !.start_time_ms = clip.start_time_ms + t,
                                            !.trim_start_ms = clip.trim_start_ms + t] >>)
          [] req.kind = "duplicate" ->
                coll \o << [clip EXCEPT !.id = NewId(seq),
                                        !.start_time_ms = clip.start_time_ms
                                            + RatRound(getEffectiveDuration(clip))] >>
          [] OTHER -> Replace(coll, clip.id, <<>>)

\* fault model: a success that clears the selection only of the clip it was for
OnSuccessSelectionOfClip(req, selected) ==
    IF req.kind \in {"split", "remove"} /\ selected = req.itemId THEN Null ELSE selected

\* onSuccess of splitItem.mutate and removeItem.mutate: setSelectedClipId(null)
OnSuccessSelection(req, selected) ==
    IF req.kind \in {"split", "remove"} THEN Null ELSE selected

\* fault model: a success that does not invalidate the clip query
MutationSuccessNoRefetch(i) ==
    /\ i \in 1..Len(pending)
    /\ ServerAccepts(server, pending[i].req)
    /\ server' = ServerApply(server, pending[i].req, pending[i].seq)
    /\ pending' = RemoveAt(pending, i)
    /\ UNCHANGED <<items, pixelsPerSecond, dragVars, resizeVars, editorHeight, trimVars,
                   storeVars, scrollVars, sent, toasts, stale, restVars>>

MutationSuccess(i) ==
    /\ i \in 1..Len(pending)
    /\ ServerAccepts(server, pending[i].req)
    /\ server' = ServerApply(server, pending[i].req, pending[i].seq)
    /\ pending' = RemoveAt(pending, i)
    /\ stale' = TRUE
    /\ selectedClipId' = OnSuccessSelection(pending[i].req, selectedClipId)
    /\ UNCHANGED <<items, pixelsPerSecond, dragVars, resizeVars, editorHeight, trimVars,
                   currentTimeMs, scrollVars, sent, toasts,
                   restVars>>

\* fault model: a failure that notifies nobody
OnErrorSilent == UNCHANGED toasts

\* onError of every mutate call: one toast
OnErrorToast == Toast

\* a network failure or a rejection by the backend
MutationFail(i) ==
    /\ i \in 1..Len(pending)
    /\ pending' = RemoveAt(pending, i)
    /\ OnErrorToast
    /\ UNCHANGED <<items, pixelsPerSecond, dragVars, resizeVars, editorHeight, trimVars,
                   storeVars, scrollVars, sent, server, stale,
                   restVars>>

\* the refetch of the invalidated clip query delivers the backend's collection
RefetchDone ==
    /\ stale
    /\ items' = server
    /\ stale' = FALSE
    /\ scrollLeft' = ClampScrollLeft(scrollLeft, items', pixelsPerSecond)
    /\ scrollTop' = ClampScrollTop(scrollTop, items', editorHeight)
    /\ UNCHANGED <<pixelsPerSecond, dragVars, resizeVars, editorHeight, trimVars,
                   storeVars, sent, pending, toasts, server,
                   restVars>>

(***************************************************************************)
(* ModelManagement: the download buttons                                   *)
(***************************************************************************)
ModelNames == {"qwen-tts-1.7B", "qwen-tts-0.6B", "whisper-base"}

\* isDownloading prop of a ModelItem; its Download button is disabled with it
isDownloading(modelName) == downloadingModel = modelName

\* click on an enabled Download button: downloadMutation.mutate(model_name),
\* whose mutationFn sets downloadingModel and sends the request
onDownload(modelName) ==
    /\ ~isDownloading(modelName)
    /\ triggersSent < MaxTriggers
    /\ downloadingModel' = modelName
    /\ triggerRequests' = Append(triggerRequests, modelName)
    /\ triggersSent' = triggersSent + 1
    /\ UNCHANGED <<handlerVars, keyTarget, clearTimers, saveCalls>>

\* the trigger request succeeds: onSuccess (a toast), then onSettled starts
\* the timer that clears downloadingModel
TriggerSuccess(i) ==
    /\ i \in 1..Len(triggerRequests)
    /\ triggerRequests' = RemoveAt(triggerRequests, i)
    /\ clearTimers' = clearTimers + 1
    /\ UNCHANGED <<handlerVars, keyTarget, downloadingModel, triggersSent, saveCalls>>

\* the trigger request fails: onError clears downloadingModel, then onSettled
\* starts the timer
TriggerError(i) ==
    /\ i \in 1..Len(triggerRequests)
    /\ triggerRequests' = RemoveAt(triggerRequests, i)
    /\ downloadingModel' = "null"
    /\ clearTimers' = clearTimers + 1
    /\ UNCHANGED <<handlerVars, keyTarget, triggersSent, saveCalls>>

\* a timer of onSettled fires: setDownloadingModel(null)
ClearTimerFires ==
    /\ clearTimers > 0
    /\ clearTimers' = clearTimers - 1
    /\ downloadingModel' = "null"
    /\ UNCHANGED <<handlerVars, keyTarget, triggerRequests, triggersSent, saveCalls>>

(***************************************************************************)
(* tauriFilesystem.saveFile: each call runs from await to await            *)
(***************************************************************************)
\* what the save dialog returns: null, a string, an object with a path, an
\* object without one
Answers == {"cancel", "string", "object", "unresolvable"}

\* the step of the Tauri path that throws in a call, if any
Faults == {"none", "importDialog", "save", "importFs", "arrayBuffer", "writeFile"}

\* the catch block: one browser download, after which saveFile resolves
Fallback(call) == [call EXCEPT !.pc = "done", !.downloads = @ + 1,
                               !.outcome = "resolved"]

\* fault model: a cancelled dialog handled like a failure
AfterSaveCancelFalls(call) ==
    IF call.answer \in {"cancel", "unresolvable"} THEN Fallback(call)
    ELSE [call EXCEPT !.pc = "importFs"]

\* after save() returned: if (filePath) { resolve the path or throw }
AfterSave(call) ==
    CASE call.answer = "cancel" -> [call EXCEPT !.pc = "done", !.outcome = "resolved"]
      [] call.answer = "unresolvable" -> Fallback(call)
      [] OTHER -> [call EXCEPT !.pc = "importFs"]

\* the next await of a call that is under way
SaveStep(call) ==
    IF call.fault = call.pc THEN Fallback(call)
    ELSE CASE call.pc = "importDialog" -> [call EXCEPT !.pc = "save"]
           [] call.pc = "save" -> AfterSave(call)
           [] call.pc = "importFs" -> [call EXCEPT !.pc = "arrayBuffer"]
           [] call.pc = "arrayBuffer" -> [call EXCEPT !.pc = "writeFile"]
           [] OTHER -> [call EXCEPT !.pc = "done", !.written = @ + 1,
                                    !.outcome = "resolved"]

\* saveFile(filename, blob, filters) is called; answer and fault are what the
\* dialog and the plugins will do in this call
saveFile(c, answer, fault) ==
    /\ saveCalls[c].pc = "idle"
    /\ \A b \in 1..c - 1 : saveCalls[b].pc # "idle"
    /\ saveCalls' = [saveCalls EXCEPT ![c] = [NoCall EXCEPT !.pc = "importDialog",
                                                            !.answer = answer,
                                                            !.fault = fault]]
    /\ UNCHANGED <<handlerVars, keyTarget, modelVars>>

SaveContinues(c) ==
    /\ saveCalls[c].pc \notin {"idle", "done"}
    /\ saveCalls' = [saveCalls EXCEPT ![c] = SaveStep(saveCalls[c])]
    /\ UNCHANGED <<handlerVars, keyTarget, modelVars>>

(***************************************************************************)
(* Events                                                                  *)
(***************************************************************************)
Download == \E modelName \in ModelNames : onDownload(modelName)

TriggerSucceeds == \E i \in 1..Len(triggerRequests) : TriggerSuccess(i)

TriggerFails == \E i \in 1..Len(triggerRequests) : TriggerError(i)

SaveCalled == \E c \in 1..MaxSaves, answer \in Answers, fault \in Faults :
                 saveFile(c, answer, fault)

SaveAdvances == \E c \in 1..MaxSaves : SaveContinues(c)

Sides == {"start", "end"}

ZoomIn == handleZoomIn /\ UNCHANGED <<keyTarget, outsideVars>>

ZoomOut == handleZoomOut /\ UNCHANGED <<keyTarget, outsideVars>>

TimelineClick == \E X \in PointerXs : handleTimelineClick(X) /\ UNCHANGED <<keyTarget, outsideVars>>

ClipClick == \E item \in Range(items) : handleClipClick(item) /\ UNCHANGED <<keyTarget, outsideVars>>

TrimStart == \E item \in Range(items), side \in Sides, X \in PointerXs :
                handleTrimStart(item, side, X) /\ UNCHANGED <<keyTarget, outsideVars>>

TrimMove == \E X \in PointerXs : handleTrimMove(X) /\ UNCHANGED <<keyTarget, outsideVars>>

TrimMoveMid == \E X \in MidPointerXs : handleTrimMove(X) /\ UNCHANGED <<keyTarget, outsideVars>>

TrimEnd == handleTrimEnd /\ UNCHANGED <<keyTarget, outsideVars>>

DragStart == \E item \in Range(items), ox \in OffsetXs, oy \in OffsetYs :
                handleDragStart(item, ox, oy) /\ UNCHANGED <<keyTarget, outsideVars>>

DragMove == \E X \in PointerXs, Y \in PointerYs : handleDragMove(X, Y) /\ UNCHANGED <<keyTarget, outsideVars>>

DragEnd == handleDragEnd /\ UNCHANGED <<keyTarget, outsideVars>>

ResizeStart == \E clientY \in ClientYs : handleResizeStart(clientY) /\ UNCHANGED <<keyTarget, outsideVars>>

ResizeMove == \E clientY \in ClientYs : handleResizeMove(clientY) /\ UNCHANGED <<keyTarget, outsideVars>>

ResizeEnd == handleResizeEnd /\ UNCHANGED <<keyTarget, outsideVars>>

PlayPause == handlePlayPause /\ UNCHANGED <<keyTarget, outsideVars>>

Stop == handleStop /\ UNCHANGED <<keyTarget, outsideVars>>

Activate == ActivateStory /\ UNCHANGED <<keyTarget, outsideVars>>

Tick == \E t \in PlayTimes : PlaybackTick(t) /\ UNCHANGED <<keyTarget, outsideVars>>

UserScroll == \E sl \in ScrollLefts, st \in ScrollTops : Scroll(sl, st) /\ UNCHANGED <<keyTarget, outsideVars>>

Split == handleSplit /\ UNCHANGED <<keyTarget, outsideVars>>

Duplicate == handleDuplicate /\ UNCHANGED <<keyTarget, outsideVars>>

Delete == handleDelete /\ UNCHANGED <<keyTarget, outsideVars>>

Succeed == \E i \in 1..Len(pending) : MutationSuccess(i) /\ UNCHANGED <<keyTarget, outsideVars>>

Fail == \E i \in 1..Len(pending) : MutationFail(i) /\ UNCHANGED <<keyTarget, outsideVars>>

Refetch == RefetchDone /\ UNCHANGED <<keyTarget, outsideVars>>

(***************************************************************************)
(* The whole editor                                                        *)
(***************************************************************************)
KeyDown == \E key \in Keys, mod \in BOOLEAN, target \in {"input", "other"} :
              handleKeyDown(key, mod, target) /\ UNCHANGED outsideVars

Next ==
    \/ KeyDown \/ Activate \/ TrimMoveMid
    \/ Download \/ TriggerSucceeds \/ TriggerFails \/ ClearTimerFires
    \/ SaveCalled \/ SaveAdvances
    \/ ZoomIn \/ ZoomOut
    \/ TimelineClick \/ ClipClick
    \/ TrimStart \/ TrimMove \/ TrimEnd
    \/ DragStart \/ DragMove \/ DragEnd
    \/ ResizeStart \/ ResizeMove \/ ResizeEnd
    \/ UserScroll
    \/ PlayPause \/ Stop \/ Tick
    \/ Split \/ Duplicate \/ Delete
    \/ Succeed \/ Fail \/ Refetch

Spec == Init /\ [][Next]_vars

(***************************************************************************)
(* The editor's state is a product of parts that do not read each other    *)
(* (zoom, panel size, drag, trim, edits of the selected clip); the whole   *)
(* product is out of reach of exhaustive search, so each property is       *)
(* checked on the part of the machine that writes what it reads.           *)
(***************************************************************************)
\* zoom buttons, scrolling and seeking
NextZoom == ZoomIn \/ ZoomOut \/ UserScroll \/ TimelineClick

SpecZoom == Init /\ [][NextZoom]_vars

\* every press, move, release and leave of the three gestures
NextModes ==
    \/ ClipClick
    \/ TrimStart \/ TrimMove \/ TrimEnd
    \/ DragStart \/ DragMove \/ DragEnd
    \/ ResizeStart \/ ResizeEnd

SpecModes == Init /\ [][NextModes]_vars

\* the two gestures that end in a mutation
NextGestures ==
    \/ ClipClick
    \/ TrimStart \/ TrimMove \/ TrimEnd
    \/ DragStart \/ DragMove \/ DragEnd

SpecGestures == Init /\ [][NextGestures]_vars

\* the trim gesture, with its mutations settling and the clips refetched
NextTrim ==
    \/ ClipClick
    \/ TrimStart \/ TrimMove \/ TrimEnd
    \/ Succeed \/ Fail \/ Refetch

SpecTrim == InitZoomed /\ [][NextTrim]_vars

\* the drag gesture, with clips moved and deleted under it
NextDrag ==
    \/ ClipClick
    \/ DragStart \/ DragMove \/ DragEnd
    \/ Delete
    \/ Succeed \/ Refetch

SpecDrag == InitScrolled /\ [][NextDrag]_vars

\* press and release on a clip with no pointer move in between
NextPress == ClipClick \/ DragStart \/ DragEnd \/ UserScroll

SpecPress == InitPress /\ [][NextPress]_vars

\* split, duplicate and delete of the selected clip
NextEdit ==
    \/ ClipClick \/ TimelineClick
    \/ Split \/ Duplicate \/ Delete
    \/ Succeed \/ Fail \/ Refetch

SpecEdit == InitZoomed /\ [][NextEdit]_vars

\* mutations of the selected clip that fail, with a trim gesture around them
NextFail ==
    \/ ClipClick \/ TimelineClick
    \/ TrimStart \/ TrimMove \/ TrimEnd
    \/ Split \/ Duplicate \/ Delete
    \/ Fail

SpecFail == Init /\ [][NextFail]_vars

\* every edit of the selected clip and the trim gesture, with the mutations
\* succeeding and the clips refetched
NextCommit ==
    \/ ClipClick \/ TimelineClick
    \/ TrimStart \/ TrimMove \/ TrimEnd
    \/ Split \/ Duplicate \/ Delete
    \/ Succeed \/ Refetch

SpecCommit == Init /\ [][NextCommit]_vars

\* requests for the selected clip sent while earlier ones are outstanding,
\* settling in any order
NextSettle ==
    \/ ClipClick
    \/ Duplicate \/ Delete
    \/ Succeed \/ Fail \/ Refetch

SpecSettle == InitOverlap /\ [][NextSettle]_vars

\* clicks on the ruler and the background, between and during presses
NextSeek ==
    \/ ClipClick \/ TimelineClick
    \/ TrimStart \/ TrimEnd
    \/ DragStart \/ DragEnd
    \/ UserScroll

SpecSeek == InitZoomed /\ [][NextSeek]_vars

\* key events in and outside text inputs, with a clip selected or not
NextKeys == ClipClick \/ KeyDown

SpecKeys == Init /\ [][NextKeys]_vars

\* the resize gesture, pressed again from the heights it produced
NextResize == ResizeStart \/ ResizeMove \/ ResizeEnd \/ UserScroll

SpecResize == InitZoomed /\ [][NextResize]_vars

\* playback with seeks and with the user scrolling under it
NextPlay == PlayPause \/ Stop \/ Tick \/ TimelineClick \/ UserScroll

SpecPlay == InitZoomed /\ [][NextPlay]_vars

\* the playback store around the editor: activation, play and pause, with
\* edits that change the clips in between
NextStore ==
    \/ Activate \/ PlayPause \/ Stop \/ Tick
    \/ ClipClick \/ Duplicate \/ Delete
    \/ Succeed \/ Refetch

SpecStore == InitUnactivated /\ [][NextStore]_vars

\* trim gestures whose pointer passes through a position on its way
NextTrimPath ==
    \/ ClipClick
    \/ TrimStart \/ TrimMove \/ TrimMoveMid \/ TrimEnd

SpecTrimPath == InitZoomed /\ [][NextTrimPath]_vars

\* a trim gesture during which the clip is deleted and the collection
\* refetched
NextTrimGone ==
    \/ ClipClick
    \/ TrimStart \/ TrimMove \/ TrimEnd
    \/ Delete
    \/ Succeed \/ Refetch

SpecTrimGone == InitOverlap /\ [][NextTrimGone]_vars

\* key events during a trim gesture
NextTrimKeys ==
    \/ ClipClick
    \/ TrimStart \/ TrimMove \/ TrimEnd
    \/ KeyDown

SpecTrimKeys == Init /\ [][NextTrimKeys]_vars

\* the download buttons of ModelManagement
NextModels == Download \/ TriggerSucceeds \/ TriggerFails \/ ClearTimerFires

SpecModels == Init /\ [][NextModels]_vars

\* calls of saveFile, one under way while the next begins
NextSave == SaveCalled \/ SaveAdvances

SpecSave == Init /\ [][NextSave]_vars

(***************************************************************************)
(* Properties                                                              *)
(***************************************************************************)
\* C1: in every reachable state at most one interaction mode is active:
\* draggingItem # null, trimmingItem # null and isResizing are pairwise exclusive
C1_AtMostOneMode ==
    /\ ~(draggingItem # Null /\ trimmingItem # Null)
    /\ ~(draggingItem # Null /\ isResizing)
    /\ ~(trimmingItem # Null /\ isResizing)

\* both trims non-negative and at least 100 ms of the clip left
LeavesMinimum(ts, te, duration_ms) ==
    /\ ts >= 0
    /\ te >= 0
    /\ RatLe(R(ts + te), RatSub(duration_ms, R(100)))

\* C2: every provisional trim pair shown during a trim gesture and every trim
\* pair sent in a trim mutation has trim_start_ms >= 0, trim_end_ms >= 0 and
\* trim_start_ms + trim_end_ms <= duration_ms - 100
C2_TrimPairsLeaveMinimum ==
    /\ tempTrimValues # <<>> =>
          /\ trimmingItem \in Ids(items)
          /\ LeavesMinimum(tempTrimValues[1].trim_start_ms,
                           tempTrimValues[1].trim_end_ms,
                           Find(items, trimmingItem).duration_ms)
    /\ \A i \in 1..Len(pending) :
          pending[i].req.kind = "trim" =>
              /\ pending[i].req.itemId \in Ids(items)
              /\ LeavesMinimum(pending[i].req.trim_start_ms,
                               pending[i].req.trim_end_ms,
                               Find(items, pending[i].req.itemId).duration_ms)

\* a trim of more than a second was sent
C2_Witness ==
    \E i \in 1..Len(pending) :
        /\ pending[i].req.kind = "trim"
        /\ pending[i].req.trim_start_ms + pending[i].req.trim_end_ms >= 1000

\* the time and track a release at the current drag position computes
DroppedTimeMs ==
    Max(0, RatRound(RatDiv(RatMul(dragPosition.x, R(1000)), pixelsPerSecond)))

DroppedTrack ==
    LET n == Len(tracks(items))
        i == dragPosition.y \div 48
    IN  tracks(items)[(IF i < 0 THEN 0 ELSE IF i > n - 1 THEN n - 1 ELSE i) + 1]

C4_ClickIssuesNoMove ==
    \A i \in 1..Len(pending) : pending[i].req.kind # "move"

\* C5: a split of the selected clip is requested iff
\* 0 < currentTimeMs - start_time_ms < effective duration, and then carries
\* split_time_ms = currentTimeMs - start_time_ms; otherwise an invalid-split
\* error is reported and no request is issued
C5_SplitIffInsideClip ==
    [][Split =>
          LET clip   == Find(items, selectedClipId)
              t      == RatSub(currentTimeMs, R(clip.start_time_ms))
              effDur == RatSub(clip.duration_ms,
                               R(clip.trim_start_ms + clip.trim_end_ms))
          IN  IF RatLt(R(0), t) /\ RatLt(t, effDur)
              THEN /\ sent' = sent + 1
                   /\ pending' = Append(pending,
                         [seq |-> sent + 1,
                          req |-> [kind |-> "split", itemId |-> selectedClipId,
                                   split_time_ms |-> t]])
                   /\ toasts' = toasts
              ELSE /\ toasts' = toasts + 1
                   /\ sent' = sent
                   /\ pending' = pending]_vars

\* a split strictly inside the selected clip was requested
C5_Witness ==
    \E i \in 1..Len(pending) :
        /\ pending[i].req.kind = "split"
        /\ RatLt(R(0), pending[i].req.split_time_ms)

\* C6: a trim release issues exactly one trim mutation if the final
\* trim_start_ms or trim_end_ms differs from the value captured at press and
\* none if both are equal (no pointer move, or a move back to the starting
\* point, leaves them equal); either way the trim state is reset
C6_TrimEndSendsIffChanged ==
    [][/\ TrimEnd =>
             LET ref == trimStartItemRef[1]
                 fts == IF tempTrimValues = <<>> THEN ref.initialTrimStart
                        ELSE tempTrimValues[1].trim_start_ms
                 fte == IF tempTrimValues = <<>> THEN ref.initialTrimEnd
                        ELSE tempTrimValues[1].trim_end_ms
             IN  /\ trimmingItem' = Null
                 /\ trimSide' = "null"
                 /\ tempTrimValues' = <<>>
                 /\ IF fts # ref.initialTrimStart \/ fte # ref.initialTrimEnd
                    THEN /\ sent' = sent + 1
                         /\ pending' = Append(pending,
                               [seq |-> sent + 1,
                                req |-> [kind |-> "trim", itemId |-> trimmingItem,
                                         trim_start_ms |-> fts,
                                         trim_end_ms |-> fte]])
                    ELSE /\ sent' = sent
                         /\ pending' = pending
                 /\ tempTrimValues = <<>> => sent' = sent
       /\ handleTrimMove(trimStartX) =>
             tempTrimValues' =
                 << [trim_start_ms |-> trimStartItemRef[1].initialTrimStart,
                     trim_end_ms |-> trimStartItemRef[1].initialTrimEnd] >>]_vars

\* a trim was sent and the gesture is over
C6_Witness ==
    /\ trimmingItem = Null
    /\ tempTrimValues = <<>>
    /\ \E i \in 1..Len(pending) : pending[i].req.kind = "trim"

\* C7: pixelsPerSecond stays within [10, 200]; zoom-in sets it to
\* min(prev * 1.5, 200) and zoom-out to max(prev / 1.5, 10); from 50 three
\* zoom-ins give 168.75 unclamped and the fourth is the first one clamped
C7_ZoomClamped ==
    /\ [](/\ RatLe(R(10), pixelsPerSecond)
          /\ RatLe(pixelsPerSecond, R(200))
          /\ ZoomInValue(R(50)) = [n |-> 75, d |-> 1]
          /\ ZoomInValue(ZoomInValue(R(50))) = [n |-> 225, d |-> 2]
          /\ ZoomInValue(ZoomInValue(ZoomInValue(R(50)))) = [n |-> 675, d |-> 4]
          /\ ZoomInValue(ZoomInValue(ZoomInValue(ZoomInValue(R(50))))) = R(200)
          /\ RatLt(R(200), RatMul([n |-> 675, d |-> 4], [n |-> 3, d |-> 2])))
    /\ [][/\ ZoomIn =>
                pixelsPerSecond' =
                    (LET up == RatMul(pixelsPerSecond, [n |-> 3, d |-> 2])
                     IN  IF RatLt(up, R(200)) THEN up ELSE R(200))
          /\ ZoomOut =>
                pixelsPerSecond' =
                    (LET down == RatMul(pixelsPerSecond, [n |-> 2, d |-> 3])
                     IN  IF RatLt(R(10), down) THEN down ELSE R(10))]_vars

\* three zoom-ins from the default
C7_Witness == pixelsPerSecond = [n |-> 675, d |-> 4]

\* times (ms) and widths (px) the conversions are probed with
ProbeValues ==
    {R(0), R(1), R(-240), R(1200), [n |-> 3001, d |-> 2], [n |-> 1, d |-> 3]}

\* C8: msToPixels and pixelsToMs are inverses at every zoom level:
\* pixelsToMs(msToPixels(x)) = x and msToPixels(pixelsToMs(p)) = p, exactly
\* over the rationals
C8_ConversionsInverse ==
    \A v \in ProbeValues :
        /\ pixelsToMs(msToPixels(v)) = v
        /\ msToPixels(pixelsToMs(v)) = v

\* a zoom level at which a whole number of pixels is a fraction of a millisecond
C8_Witness ==
    /\ ~IsInt(pixelsPerSecond)
    /\ ~IsInt(pixelsToMs(R(1)))
    /\ ~IsInt(msToPixels(R(1)))

\* C9: a release (or leave) ends the gesture in the same step that dispatches
\* its mutation, and a new drag, trim or resize gesture can start while
\* mutations are outstanding
C9_IdleOnDispatch ==
    [][/\ DragEnd => draggingItem' = Null
       /\ TrimEnd => trimmingItem' = Null
       /\ sent' = sent + 1 =>
             \/ draggingItem # Null /\ draggingItem' = Null
             \/ trimmingItem # Null /\ trimmingItem' = Null
       /\ pending # <<>> =>
             /\ \E item \in Range(items), ox \in OffsetXs, oy \in OffsetYs :
                   CanDragStart(item, ox, oy)
             /\ ENABLED ResizeStart
             /\ selectedClipId \in Ids(items) => ENABLED TrimStart]_vars

\* a drag and a trim were started after a mutation was dispatched and before
\* it settled
C9_Witness ==
    /\ pending # <<>>
    /\ draggingItem # Null
    /\ trimmingItem # Null

\* C10: a failed mutation produces one error notification and is not sent
\* again: requests are sent by user actions only, and a failure changes
\* neither the interaction mode nor the clip collection
C10_FailureNotifiesOnce ==
    [][/\ Fail =>
             /\ toasts' = toasts + 1
             /\ sent' = sent
             /\ Len(pending') = Len(pending) - 1
             /\ UNCHANGED <<draggingItem, trimmingItem, isResizing, items>>
       /\ sent' # sent =>
             /\ sent' = sent + 1
             /\ Len(pending') = Len(pending) + 1
             /\ TrimEnd \/ DragEnd \/ Split \/ Duplicate \/ Delete]_vars

\* a mutation failed while a trim gesture was in progress
C10_Witness ==
    /\ sent = 1
    /\ pending = <<>>
    /\ toasts = 1
    /\ trimmingItem # Null

\* C11: no pointer, keyboard or toolbar handler changes the client-side clip
\* collection (drag, trim, split, duplicate and delete leave the committed
\* fields as they are); the collection changes only when a refetch delivers
\* the backend's data
C11_OnlyRefetchChangesItems ==
    [][items' # items =>
          /\ Refetch
          /\ items' = server
          /\ UNCHANGED <<sent, pending, selectedClipId, dragVars, trimVars>>]_vars

\* a trim was accepted by the backend and the local clip still has its old trims
C11_Witness ==
    /\ stale
    /\ pending = <<>>
    /\ \E i \in 1..Len(items) :
          /\ Len(server) = Len(items)
          /\ server[i].id = items[i].id
          /\ server[i].trim_start_ms # items[i].trim_start_ms

\* C12: whatever the order in which overlapping mutation requests settle,
\* once none is outstanding and the refetch after the last success has
\* completed, the client-side clip collection equals the backend's
C12_SettledItemsEqualServer ==
    (pending = <<>> /\ ~stale) => items = server

\* two duplicate requests overlapped, the later one succeeded first, and
\* the refetched collection holds both copies
C12_Witness ==
    /\ pending = <<>>
    /\ ~stale
    /\ Len(items) = Len(InitialItems) + 2
    /\ items[Len(items) - 1].id > items[Len(items)].id

\* C13: a click on the ruler or the background never seeks while a drag or a
\* trim is in progress (currentTimeMs and the selection stay as they are);
\* when idle it sets currentTimeMs to max(0, pixelsToMs(x)), x being the
\* click's offset in the scrolled timeline, and clears the selection
C13_SeekOnlyWhenIdle ==
    [][/\ (draggingItem # Null \/ trimmingItem # Null) =>
             UNCHANGED <<currentTimeMs, selectedClipId>>
       /\ \A X \in PointerXs :
             handleTimelineClick(X) /\ draggingItem = Null /\ trimmingItem = Null =>
                 /\ currentTimeMs' =
                       (LET t == RatDiv(RatMul(R(X + scrollLeft), R(1000)),
                                        pixelsPerSecond)
                        IN  IF RatLt(t, R(0)) THEN R(0) ELSE t)
                 /\ selectedClipId' = Null]_vars

\* a seek was done, a clip selected and a trim started on it
C13_Witness ==
    /\ trimmingItem # Null
    /\ selectedClipId = trimmingItem
    /\ RatLt(R(0), currentTimeMs)

\* C14: a key event whose target is a text input or a textarea has no
\* effect: playback state, selection and the mutations issued are unchanged
\* for Space, Escape, S, Cmd/Ctrl+D, Delete and Backspace
C14_KeysInInputsIgnored ==
    [][\A key \in Keys, mod \in BOOLEAN :
          handleKeyDown(key, mod, "input") =>
              UNCHANGED <<isPlaying, selectedClipId, currentTimeMs, sent, pending,
                          toasts, items, scrollLeft>>]_vars

\* playing, with a clip selected, and the last key went to a text input
C14_Witness ==
    /\ keyTarget = "input"
    /\ isPlaying
    /\ selectedClipId # Null

ClampHeight(h) ==
    IF h < MIN_EDITOR_HEIGHT THEN MIN_EDITOR_HEIGHT
    ELSE IF h > MAX_EDITOR_HEIGHT THEN MAX_EDITOR_HEIGHT ELSE h

\* C15: a press records the pointer's y and the height; after every move
\* of the resize the editor height is
\* clamp(startHeight + (startY - pointerY), 120, 500): moving up never gives
\* less than clamp(startHeight), moving down never more, and at startY it is
\* clamp(startHeight)
C15_ResizeHeightClamped ==
    [][/\ \A clientY \in ClientYs :
             handleResizeStart(clientY) =>
                 resizeStartY' = clientY /\ resizeStartHeight' = editorHeight
       /\ \A clientY \in ClientYs :
             handleResizeMove(clientY) =>
                 /\ editorHeight' = ClampHeight(resizeStartHeight + (resizeStartY - clientY))
                 /\ clientY < resizeStartY => editorHeight' >= ClampHeight(resizeStartHeight)
                 /\ clientY > resizeStartY => editorHeight' <= ClampHeight(resizeStartHeight)
                 /\ clientY = resizeStartY => editorHeight' = ClampHeight(resizeStartHeight)
                 /\ UNCHANGED <<resizeStartY, resizeStartHeight>>]_vars

\* a resize that would pass the maximum is held at it
C15_Witness ==
    /\ isResizing
    /\ editorHeight = MAX_EDITOR_HEIGHT
    /\ resizeStartHeight < MAX_EDITOR_HEIGHT
    /\ \E clientY \in ClientYs :
          resizeStartHeight + (resizeStartY - clientY) > MAX_EDITOR_HEIGHT

\* C16: the drag position never has a negative x, and every move mutation
\* carries a start_time_ms that is a non-negative integer and a track that is
\* in the track list at the time it is issued
C16_MoveWithinTimeline ==
    [][/\ draggingItem' # Null => RatLe(R(0), dragPosition'.x)
       /\ sent' # sent /\ pending'[Len(pending')].req.kind = "move" =>
             /\ pending'[Len(pending')].req.start_time_ms \in Nat
             /\ \E k \in 1..Len(tracks(items)) :
                   tracks(items)[k] = pending'[Len(pending')].req.track]_vars

\* a clip dropped with the pointer left of and above the timeline was moved
\* to time 0 on the top track
C16_Witness ==
    /\ draggingItem = Null
    /\ \E X \in PointerXs : X + scrollLeft - dragOffset.x < 0
    /\ dragPosition.y < 0
    /\ \E i \in 1..Len(pending) :
          /\ pending[i].req.kind = "move"
          /\ pending[i].req.start_time_ms = 0
          /\ pending[i].req.track = tracks(items)[1]
          /\ pending[i].req.itemId \in Ids(items)
          /\ Find(items, pending[i].req.itemId).start_time_ms > 0

\* the trims a release would send in the state after a step
ProvisionalStartAfter ==
    IF tempTrimValues' = <<>> THEN trimStartItemRef'[1].initialTrimStart
    ELSE tempTrimValues'[1].trim_start_ms

ProvisionalEndAfter ==
    IF tempTrimValues' = <<>> THEN trimStartItemRef'[1].initialTrimEnd
    ELSE tempTrimValues'[1].trim_end_ms

\* C17: on the start handle a larger rightward delta never computes a smaller
\* trim_start_ms and trim_end_ms stays at the press-time value throughout the
\* gesture and in its mutation; on the end handle a larger rightward delta
\* never computes a larger trim_end_ms and trim_start_ms stays at the
\* press-time value; a trim mutation differs from the press-time pair in at
\* most one field
C17_TrimMovesOneSide ==
    [][/\ trimmingItem' # Null /\ trimStartItemRef' # <<>> =>
             /\ trimSide' = "start" =>
                   ProvisionalEndAfter = trimStartItemRef'[1].initialTrimEnd
             /\ trimSide' = "end" =>
                   ProvisionalStartAfter = trimStartItemRef'[1].initialTrimStart
       /\ \A X \in PointerXs :
             handleTrimMove(X) /\ trimSide # "null" /\ trimStartItemRef # <<>> =>
                 \A X2 \in PointerXs :
                     X <= X2 =>
                         LET ref == trimStartItemRef[1]
                             d1  == pixelsToMs(R(X - trimStartX))
                             d2  == pixelsToMs(R(X2 - trimStartX))
                             dur == ref.item.duration_ms
                         IN  /\ newTrimStart(trimSide, ref.initialTrimStart,
                                             ref.initialTrimEnd, d1, dur)
                                  <= newTrimStart(trimSide, ref.initialTrimStart,
                                                  ref.initialTrimEnd, d2, dur)
                             /\ newTrimEnd(trimSide, ref.initialTrimStart,
                                           ref.initialTrimEnd, d1, dur)
                                  >= newTrimEnd(trimSide, ref.initialTrimStart,
                                                ref.initialTrimEnd, d2, dur)
       /\ handleTrimEnd /\ sent' # sent =>
             LET req == pending'[Len(pending')].req
                 ref == trimStartItemRef[1]
             IN  /\ trimSide = "start" => req.trim_end_ms = ref.initialTrimEnd
                 /\ trimSide = "end" => req.trim_start_ms = ref.initialTrimStart]_vars

\* the layout that follows from a pair of trims
LayoutOf(item, ts, te) ==
    LET eff == RatSub(item.duration_ms, R(ts + te))
        w   == RatDiv(RatMul(eff, pixelsPerSecond), R(1000))
    IN  [effectiveDuration |-> eff, styleWidth |-> w, clipWidth |-> w,
         trimStartMs |-> ts, trimEndMs |-> te]

\* C18: while a trim is active the clip being trimmed is laid out from the
\* provisional trims (once a move has set them), every other clip from its
\* committed trims; with no trim active every clip is laid out from its
\* committed trims
C18_LayoutFromProvisionalTrims ==
    \A i \in 1..Len(items) :
        IF trimmingItem # Null /\ items[i].id = trimmingItem /\ tempTrimValues # <<>>
        THEN ClipLayout(items[i]) =
                LayoutOf(items[i], tempTrimValues[1].trim_start_ms,
                         tempTrimValues[1].trim_end_ms)
        ELSE ClipLayout(items[i]) =
                LayoutOf(items[i], items[i].trim_start_ms, items[i].trim_end_ms)

\* a trim in progress whose provisional start differs from the committed
\* one, next to another clip that has trims of its own
C18_Witness ==
    /\ trimmingItem # Null
    /\ tempTrimValues # <<>>
    /\ \E i, j \in 1..Len(items) :
          /\ items[i].id = trimmingItem
          /\ tempTrimValues[1].trim_start_ms # items[i].trim_start_ms
          /\ items[j].id # trimmingItem
          /\ items[j].trim_start_ms > 0
          /\ items[j].trim_start_ms # tempTrimValues[1].trim_start_ms

\* x of the playhead in the state after a step
PlayheadLeftAfter == RatDiv(RatMul(currentTimeMs', pixelsPerSecond'), R(1000))

HalfViewport == [n |-> ContainerWidth, d |-> 2]

\* C19: a step after which the auto-scroll effect runs (play, pause, stop,
\* playback progress, seek) never decreases scrollLeft; it changes scrollLeft
\* only while playing and only if the playhead is right of
\* scrollLeft + viewportWidth / 2, and then to a strictly larger value; while
\* not playing it leaves scrollLeft alone
C19_AutoScrollOnlyForward ==
    [][PlayPause \/ Stop \/ Tick \/ TimelineClick =>
          /\ scrollLeft' >= scrollLeft
          /\ scrollLeft' # scrollLeft =>
                /\ isPlaying'
                /\ RatLt(RatAdd(R(scrollLeft), HalfViewport), PlayheadLeftAfter)
                /\ scrollLeft' > scrollLeft
          /\ ~isPlaying' => scrollLeft' = scrollLeft]_vars

\* playing, scrolled forward by the auto-scroll to a position the user's
\* scrolling does not produce
C19_Witness ==
    /\ isPlaying
    /\ scrollLeft \notin ScrollLefts
    /\ RatLt(R(0), currentTimeMs)

\* C20: after every step in which the auto-scroll moved the container the
\* playhead is in the right half of the viewport:
\* scrollLeft + viewportWidth / 2 <= playheadLeft <= scrollLeft + viewportWidth
C20_PlayheadInRightHalf ==
    [][(PlayPause \/ Tick \/ TimelineClick) /\ scrollLeft' # scrollLeft =>
          /\ isPlaying'
          /\ RatLe(RatAdd(R(scrollLeft'), HalfViewport), PlayheadLeftAfter)
          /\ RatLe(PlayheadLeftAfter, R(scrollLeft' + ContainerWidth))]_vars

\* playing with the playhead in the right half of a scrolled viewport, off
\* its centre by the fraction of a pixel the container does not scroll
C20_Witness ==
    /\ isPlaying
    /\ scrollLeft > 0
    /\ RatLt(RatAdd(R(scrollLeft), HalfViewport), msToPixels(currentTimeMs))
    /\ RatLt(msToPixels(currentTimeMs), RatAdd(R(scrollLeft + 1), HalfViewport))

\* C21: the track list holds exactly the default lanes 1, 0, -1 and the
\* track of every clip, without duplicates and in strictly descending order;
\* it has at least 3 entries and getTrackIndex finds every clip's track
C21_TracksDescendingUnion ==
    LET t == tracks(items)
    IN  /\ {t[k] : k \in 1..Len(t)} = {1, 0, -1} \cup {items[i].track : i \in 1..Len(items)}
        /\ \A k \in 1..Len(t) - 1 : t[k] > t[k + 1]
        /\ Len(t) >= 3
        /\ \A i \in 1..Len(items) :
              /\ getTrackIndex(items, items[i].track) \in 0..Len(t) - 1
              /\ t[getTrackIndex(items, items[i].track) + 1] = items[i].track

\* a clip dragged to the top lane and refetched, next to a clip on a lane
\* outside the default ones
C21_Witness ==
    /\ \E i \in 1..Len(items) : items[i].track = 1
    /\ \E i \in 1..Len(items) : items[i].track \notin {1, 0, -1}
    /\ Len(tracks(items)) = 4

\* the latest end of a clip, and 10000 at least
FlooredEnd(coll) ==
    LET ends == {RatAdd(R(coll[i].start_time_ms),
                        RatSub(coll[i].duration_ms,
                               R(coll[i].trim_start_ms + coll[i].trim_end_ms))) :
                    i \in 1..Len(coll)} \cup {R(10000)}
    IN  CHOOSE m \in ends : \A e \in ends : RatLe(e, m)

\* C22: totalDurationMs is the maximum over the clips of
\* start_time_ms + (duration_ms - trim_start_ms - trim_end_ms), 10000 at
\* least (10000 without clips), and the total duration handed to the store
\* when the editor activates the story is that same value
C22_TotalDurationFloored ==
    [][/\ totalDurationMs(items') = FlooredEnd(items')
       /\ Activate => playbackTotalMs' = FlooredEnd(items)]_vars

\* C23: the toggle pauses, and hands no clips to the store, exactly when
\* this story is the active one and is playing; otherwise it plays with the
\* clips of the collection, each once, in non-decreasing order of
\* start_time_ms; the collection itself keeps its order
C23_ToggleSortsCopy ==
    [][PlayPause =>
          /\ items' = items
          /\ IF isPlaying /\ playbackActive
             THEN /\ ~isPlaying'
                  /\ playbackItems' = playbackItems
             ELSE /\ isPlaying' /\ playbackActive'
                  /\ Len(playbackItems') = Len(items)
                  /\ {playbackItems'[k] : k \in 1..Len(items)} =
                        {items[k] : k \in 1..Len(items)}
                  /\ \A k \in 1..Len(items) - 1 :
                        playbackItems'[k].start_time_ms <=
                           playbackItems'[k + 1].start_time_ms]_vars

\* playing from clips handed over in another order than the collection's
C23_Witness ==
    /\ isPlaying /\ playbackActive
    /\ Len(items) >= 2
    /\ Len(playbackItems) = Len(items)
    /\ playbackItems # items
    /\ \E k \in 1..Len(items) - 1 : items[k].start_time_ms > items[k + 1].start_time_ms

\* C24: the success of a split or delete request clears the selection,
\* whichever clip is selected then; a failure leaves the selection as it is;
\* issuing the request leaves it as it is, so it lasts while the request is
\* in flight
C24_SelectionClearedOnSuccess ==
    [][/\ \A i \in 1..Len(pending) :
             MutationSuccess(i) /\ pending[i].req.kind \in {"split", "remove"} =>
                 selectedClipId' = Null
       /\ Fail => selectedClipId' = selectedClipId
       /\ Split \/ Delete => selectedClipId' = selectedClipId]_vars

\* a split or delete in flight while another clip than the one it was issued
\* for is selected
C24_Witness ==
    \E i \in 1..Len(pending) :
        /\ pending[i].req.kind \in {"split", "remove"}
        /\ selectedClipId # Null
        /\ selectedClipId # pending[i].req.itemId

\* the pair a release would send: tempTrimValues, else the press-time pair
ProvisionalPair(temp) ==
    IF temp = <<>>
    THEN <<trimStartItemRef[1].initialTrimStart, trimStartItemRef[1].initialTrimEnd>>
    ELSE <<temp[1].trim_start_ms, temp[1].trim_end_ms>>

\* C25: in every state of a trim gesture a pointer move to x leaves the
\* provisional trims that the same move gives as the first move after the
\* press: they follow from the press-time trims, the side, the zoom level and
\* x, and not from where the pointer was before
C25_TrimMoveForgetsPath ==
    trimmingItem # Null /\ trimSide # "null" /\ trimStartItemRef # <<>> =>
        \A X \in PointerXs \cup MidPointerXs :
            ProvisionalPair(TempAfterMove(X, tempTrimValues)) =
               ProvisionalPair(TempAfterMove(X, <<>>))

\* C26: a release that issues a trim mutation finds the trimmed clip in the
\* client collection
C26_NoTrimForAbsentClip ==
    [][TrimEnd /\ sent' # sent => trimmingItem \in Ids(items)]_vars

\* C27: while a trim gesture is in progress the clip being trimmed is the
\* selected clip
C27_TrimmedClipSelected ==
    trimmingItem # Null => selectedClipId = trimmingItem

C28_PendingModelReportedDownloading ==
    /\ \A i \in 1..Len(triggerRequests) : isDownloading(triggerRequests[i])
    /\ \A i, j \in 1..Len(triggerRequests) :
           triggerRequests[i] = triggerRequests[j] => i = j

(***************************************************************************)
(* C29: a finished call of saveFile has started the browser download once  *)
(* if a step of the Tauri path threw and never otherwise; a cancelled      *)
(* dialog writes nothing and downloads nothing; the call never rejects     *)
(***************************************************************************)
\* the Tauri path of a call throws: a step it reaches fails, or the path the
\* dialog returned cannot be resolved
TauriPathThrows(call) ==
    \/ call.fault \in {"importDialog", "save"}
    \/ call.answer = "unresolvable"
    \/ call.answer \in {"string", "object"} /\ call.fault # "none"

C29_FallbackIffTauriThrows ==
    \A c \in 1..MaxSaves :
        /\ saveCalls[c].downloads <= 1
        /\ saveCalls[c].outcome # "rejected"
        /\ saveCalls[c].pc = "done" =>
              /\ saveCalls[c].outcome = "resolved"
              /\ saveCalls[c].downloads = (IF TauriPathThrows(saveCalls[c]) THEN 1 ELSE 0)
              /\ saveCalls[c].written = (IF TauriPathThrows(saveCalls[c])
                                            \/ saveCalls[c].answer = "cancel"
                                         THEN 0 ELSE 1)

\* one call fell back after a failed write while another was cancelled
C29_Witness ==
    \E c, b \in 1..MaxSaves :
        /\ saveCalls[c].pc = "done" /\ saveCalls[c].fault = "writeFile"
        /\ saveCalls[c].downloads = 1
        /\ saveCalls[b].pc = "done" /\ saveCalls[b].answer = "cancel"
        /\ saveCalls[b].fault = "none" /\ saveCalls[b].downloads = 0

====